---- MODULE Spec2Model ----
(***************************************************************************)
(* Back-projection of 2D polylines drawn on an orthographic projection     *)
(* image into 3D polylines (src/__init__.py): polyline_2d_to_3d, the batch *)
(* loop of load_annotation and the Load3DPolyline operator that runs it.   *)
(*                                                                         *)
(* Real numbers are kept in tenths (fixed point): 10 is 1.0, -16 is -1.6.  *)
(* Bounds of the projected region are whole units, so every product the    *)
(* code forms is exact in this representation.                             *)
(***************************************************************************)
EXTENDS Integers, Sequences, FiniteSets, TLC

VARIABLES
    pc,                 \* position of the Load3DPolyline run
    via,                \* how the operator was entered, and whether the caller gave road_surface
    params,             \* ctx.params
    road_surface,       \* execute's local road_surface (NotSet before execute)
    all_polylines,      \* view.values(...)[0]: per sample, None or a Polylines value
    metadatas,          \* view.values(...)[1]
    group_ids,          \* view.values(...)[2]
    idx,                \* position of the zip() iteration in load_annotation
    polylines_3d,       \* the dict built by load_annotation
    label_field_values,        \* what set_values has stored in the output label field, by group id
    events,             \* outward effects in order: "set_values", "reload_dataset"
    polyline_2d,        \* argument of a direct polyline_2d_to_3d call
    metadata,           \* argument of a direct polyline_2d_to_3d call
    road_z_value,       \* argument of a direct polyline_2d_to_3d call
    outcome             \* what the direct call ended in

vars == <<pc, via, params, road_surface, all_polylines, metadatas, group_ids, idx,
          polylines_3d, label_field_values, events, polyline_2d, metadata, road_z_value, outcome>>

operatorVars == <<via, params, road_surface, all_polylines, metadatas, group_ids, idx,
                  polylines_3d, label_field_values, events>>

callVars == <<polyline_2d, metadata, road_z_value, outcome>>

----------------------------------------------------------------------------
(* Bounds of the model *)

MaxChains == 2

MaxChainLen == 2

\* polylines in one batch, over all its samples
MaxPolylines == 3

\* samples in one batch
MaxEntries == 2

----------------------------------------------------------------------------
(* Values *)

\* 1.0 in tenths; the literal 1 added at line 68
One == 10

\* default of __call__ (line 195) and of the input form (line 252): -1.6
RoadSurfaceDefault == -16

\* fallback of ctx.params.get("road_surface", 0) in execute (line 266)
ExecuteFallback == 0

\* road heights a caller supplies: 2.5
SuppliedRoadSurfaces == {25}

NotSet == "not set"

SeqsUpTo(S, n) == UNION {[1..k -> S] : k \in 0..n}

Mul(a, b) == (a * b) \div One

\* orthographic_projection_metadata records
Metadatas ==
    { [min_bound |-> <<0, 0>>, max_bound |-> <<100, 200>>, width |-> 540, height |-> 1080],
      [min_bound |-> <<-20, -40>>, max_bound |-> <<20, 60>>, width |-> 432, height |-> 1080] }

Labels == {"lane", "curb"}

\* points in normalized image space: corners, and one outside [0,1] (not clamped)
Points2D == { <<0, 0>>, <<10, 10>>, <<5, 20>> }

\* what a polyline's points may be drawn from: 2-coordinate points, points of
\* another dimensionality, and a mix of dimensionalities
PointSets == { Points2D, { <<5>> }, { <<0, 10, 5>> }, { <<0, 0>>, <<5>> } }

PointsOver(S) == SeqsUpTo(SeqsUpTo(S, MaxChainLen), MaxChains)

Polylines2D ==
    { [label |-> l, points |-> p] : l \in Labels, p \in UNION { PointsOver(S) : S \in PointSets } }

----------------------------------------------------------------------------
(* polyline_2d_to_3d *)

\* np.array(points).shape. A ragged nesting has no 3-dimensional shape: numpy
\* either raises at once or builds an object array of the common outer
\* dimensions, on which shape[1] or shape[2] raises at line 64.
NpShape(points) ==
    IF Len(points) = 0 THEN <<0>>
    ELSE IF \E i \in 1..Len(points) : Len(points[i]) # Len(points[1]) THEN <<Len(points)>>
    ELSE IF Len(points[1]) = 0 THEN <<Len(points), 0>>
    ELSE IF \E i \in 1..Len(points), j \in 1..Len(points[1]) :
                Len(points[i][j]) # Len(points[1][1])
         THEN <<Len(points), Len(points[1])>>
    ELSE <<Len(points), Len(points[1]), Len(points[1][1])>>

\* Lines 64-72 are elementwise, each on the columns its index selects: e is an
\* element of the array points, c its column (1-based), last the last column.
Line65(e, c, last, z) == IF c = last THEN z ELSE e            \* points[:,:,-1] = road_z_value

Line66(e, c, last, p) == IF c < last THEN p[c] ELSE e         \* points[:,:,:-1] = np.array(...)

Line67OnColumn0(e, c) == IF c = 1 THEN Mul(e, -One) ELSE e

Line67(e, c) == IF c = 2 THEN Mul(e, -One) ELSE e             \* points[:,:, 1] *= -1

Line68(e, c) == IF c = 2 THEN e + One ELSE e                  \* points[:,:, 1] += 1

Line69(e, c, md) == IF c = 1 THEN Mul(e, md.max_bound[1] - md.min_bound[1]) ELSE e

Line70(e, c, md) == IF c = 2 THEN Mul(e, md.max_bound[2] - md.min_bound[2]) ELSE e

Line71(e, c, md) == IF c = 1 THEN e + md.min_bound[1] ELSE e

Line72(e, c, md) == IF c = 2 THEN e + md.min_bound[2] ELSE e

\* one element of points after line 72; p is the 2D point it belongs to
Element(p, c, last, md, z) ==
    Line72(Line71(Line70(Line69(Line68(Line67(Line66(Line65(0, c, last, z),
        c, last, p), c), c), c, md), c, md), c, md), c, md)

\* the array `points` after line 72
ProjectedArray(src, shape, md, z) ==
    [i \in 1..shape[1] |-> [j \in 1..shape[2] |->
        [c \in 1..(shape[3] + 1) |-> Element(src[i][j], c, shape[3] + 1, md, z)]]]

\* the object the writes of lines 64-72 go to: the array np.zeros made, which
\* the name points is bound to; arg is the caller's polyline_2d.points
WriteTargetAliased == "arg"

WriteTarget == "points"

\* the two objects in play when the function returns
ProjectStore(arg, shape, md, z) ==
    [[arg |-> arg, points |-> <<>>] EXCEPT ![WriteTarget] = ProjectedArray(arg, shape, md, z)]

\* The call's result: raised (an IndexError or ValueError leaves the function), or
\* ret, the fo.Polyline returned; arg is polyline_2d as the call leaves it.
polyline_2d_to_3d(p2d, md, z) ==
    LET shape == NpShape(p2d.points) IN
    IF Len(shape) < 3 \/ shape[3] + 1 < 2
    THEN [raised |-> TRUE, arg |-> p2d]
    ELSE LET s == ProjectStore(p2d.points, shape, md, z) IN
         [raised |-> FALSE,
          ret |-> [points3d |-> s[WriteTarget], label |-> p2d.label],
          arg |-> [p2d EXCEPT !.points = s.arg]]

----------------------------------------------------------------------------
(* A direct call of polyline_2d_to_3d *)

InitCall ==
    /\ pc = "call"
    /\ polyline_2d \in Polylines2D
    /\ metadata \in Metadatas
    /\ road_z_value \in {RoadSurfaceDefault, ExecuteFallback}
    /\ outcome = NotSet
    /\ via = NotSet /\ params = NotSet /\ road_surface = NotSet
    /\ all_polylines = <<>> /\ metadatas = <<>> /\ group_ids = <<>>
    /\ idx = 0 /\ polylines_3d = <<>> /\ label_field_values = <<>> /\ events = <<>>

CallPolyline2dTo3d ==
    /\ pc = "call"
    /\ \E r \in {polyline_2d_to_3d(polyline_2d, metadata, road_z_value)} :
         /\ outcome' = IF r.raised THEN [raised |-> TRUE] ELSE [raised |-> FALSE, ret |-> r.ret]
         /\ polyline_2d' = r.arg
         /\ pc' = IF r.raised THEN "raised" ELSE "returned"
    /\ UNCHANGED <<metadata, road_z_value>>
    /\ UNCHANGED operatorVars

NextCall == CallPolyline2dTo3d

SpecCall == InitCall /\ [][NextCall]_vars

----------------------------------------------------------------------------
(* The batch the annotation view holds *)

None == [none |-> TRUE]

GroupIds == {"g1", "g2"}

\* the polylines of the batch's samples: two that project, and one without chains
LaneLine == [label |-> "lane", points |-> << << <<0, 0>>, <<10, 10>> >> >>]

CurbLine == [label |-> "curb", points |-> << << <<5, 20>> >>, << <<10, 10>> >> >>]

BareLine == [label |-> "lane", points |-> << >>]

SamplePolylines == {LaneLine, CurbLine, BareLine}

RECURSIVE Total(_, _)
\* lens[1] + ... + lens[i]
Total(lens, i) == IF i = 0 THEN 0 ELSE lens[i] + Total(lens, i - 1)

\* The polyline_2d field of n samples: sample i holds None where nones[i], else a
\* Polylines value of the next lens[i] polylines of flat.
FieldValues(n, lens, nones, flat) ==
    [i \in 1..n |->
        IF nones[i] THEN None
        ELSE [polylines |-> SubSeq(flat, Total(lens, i - 1) + 1, Total(lens, i))]]

\* how at most MaxPolylines polylines lie over n samples
Layouts(n) ==
    { l \in [1..n -> [len : 0..MaxPolylines, none : BOOLEAN]] :
        /\ \A i \in 1..n : l[i].none => l[i].len = 0
        /\ Total([i \in 1..n |-> l[i].len], n) <= MaxPolylines }

----------------------------------------------------------------------------
(* load_annotation *)

EmptyDict == [g \in {} |-> None]

\* d[key] = value
DictSet(d, key, value) ==
    [g \in DOMAIN d \cup {key} |-> IF g = key THEN value ELSE d[g]]

RECURSIVE ProjectFrom(_, _, _, _, _)
\* lines 96-98 from the j-th polyline on: acc.out is sample_polylines_3d, acc.args
\* the sample's polylines as the calls leave them; a call that raises ends the loop
ProjectFrom(polylines, j, md, z, acc) ==
    IF j > Len(polylines) THEN acc
    ELSE LET r == polyline_2d_to_3d(polylines[j], md, z) IN
         IF r.raised
         THEN [acc EXCEPT !.raised = TRUE]
         ELSE ProjectFrom(polylines, j + 1, md, z,
                          [raised |-> FALSE,
                           out |-> Append(acc.out, r.ret),
                           args |-> [acc.args EXCEPT ![j] = r.arg]])

StoreSampleSkippingNone(st, i, gids, r) ==
    IF r.raised
    THEN [st EXCEPT !.raised = TRUE, !.all_polylines[i] = [polylines |-> r.args]]
    ELSE IF st.all_polylines[i] = None
    THEN [st EXCEPT !.idx = i]
    ELSE [raised |-> FALSE,
          polylines_3d |-> DictSet(st.polylines_3d, gids[i], [polylines |-> r.out]),
          all_polylines |-> [st.all_polylines EXCEPT ![i] = [polylines |-> r.args]],
          idx |-> i]

StoreSampleMerging(st, i, gids, r) ==
    IF r.raised
    THEN [st EXCEPT !.raised = TRUE, !.all_polylines[i] = [polylines |-> r.args]]
    ELSE [raised |-> FALSE,
          polylines_3d |->
              DictSet(st.polylines_3d, gids[i],
                      [polylines |-> IF gids[i] \in DOMAIN st.polylines_3d
                                     THEN st.polylines_3d[gids[i]].polylines \o r.out
                                     ELSE r.out]),
          all_polylines |-> IF st.all_polylines[i] = None THEN st.all_polylines
                            ELSE [st.all_polylines EXCEPT ![i] = [polylines |-> r.args]],
          idx |-> i]

\* line 100 (or the exception on its way out) for the i-th sample; r is what
\* lines 94-98 made of it
StoreSample(st, i, gids, r) ==
    IF r.raised
    THEN [st EXCEPT !.raised = TRUE, !.all_polylines[i] = [polylines |-> r.args]]
    ELSE [raised |-> FALSE,
          polylines_3d |-> DictSet(st.polylines_3d, gids[i], [polylines |-> r.out]),
          all_polylines |-> IF st.all_polylines[i] = None THEN st.all_polylines
                            ELSE [st.all_polylines EXCEPT ![i] = [polylines |-> r.args]],
          idx |-> i]

LoopBodyFirstMetadata(st, i, mds, gids, z) ==
    StoreSample(st, i, gids,
        IF st.all_polylines[i] = None
        THEN [raised |-> FALSE, out |-> <<>>, args |-> <<>>]
        ELSE ProjectFrom(st.all_polylines[i].polylines, 1, mds[1], z,
                         [raised |-> FALSE, out |-> <<>>,
                          args |-> st.all_polylines[i].polylines]))

\* One turn of the loop of line 93 (lines 94-100) on the i-th sample. st holds
\* polylines_3d, all_polylines as left so far, idx (the samples done) and raised.
LoopBody(st, i, mds, gids, z) ==
    StoreSample(st, i, gids,
        IF st.all_polylines[i] = None
        THEN [raised |-> FALSE, out |-> <<>>, args |-> <<>>]
        ELSE ProjectFrom(st.all_polylines[i].polylines, 1, mds[i], z,
                         [raised |-> FALSE, out |-> <<>>,
                          args |-> st.all_polylines[i].polylines]))

RECURSIVE LoopFrom(_, _, _, _, _)
\* the loop of line 93 from the i-th sample on
LoopFrom(st, i, mds, gids, z) ==
    IF st.raised \/ i > Len(gids) THEN st
    ELSE LoopFrom(LoopBody(st, i, mds, gids, z), i + 1, mds, gids, z)

\* set_values(label_field, values, key_field="group.id") on the stored field
SetValues(stored, values) ==
    [g \in DOMAIN stored \cup DOMAIN values |->
        IF g \in DOMAIN values THEN values[g] ELSE stored[g]]

AfterLoopWritingPartial(st, stored, evs) ==
    [raised |-> st.raised, polylines_3d |-> st.polylines_3d,
     all_polylines |-> st.all_polylines, idx |-> st.idx,
     label_field |-> SetValues(stored, st.polylines_3d),
     events |-> Append(evs, "set_values")]

\* line 102, reached when the loop ended without an exception
AfterLoop(st, stored, evs) ==
    IF st.raised
    THEN [raised |-> TRUE, polylines_3d |-> st.polylines_3d,
          all_polylines |-> st.all_polylines, idx |-> st.idx,
          label_field |-> stored, events |-> evs]
    ELSE [raised |-> FALSE, polylines_3d |-> st.polylines_3d,
          all_polylines |-> st.all_polylines, idx |-> st.idx,
          label_field |-> SetValues(stored, st.polylines_3d),
          events |-> Append(evs, "set_values")]

\* load_annotation, lines 90-102: the loop, and after it the one set_values.
\* An exception from the loop leaves the function before line 102.
load_annotation(polys, mds, gids, z, stored, evs) ==
    AfterLoop(LoopFrom([raised |-> FALSE, polylines_3d |-> EmptyDict,
                        all_polylines |-> polys, idx |-> 0], 1, mds, gids, z),
              stored, evs)

----------------------------------------------------------------------------
(* The Load3DPolyline operator *)

BaseParams == [anno_key |-> "run", label_field |-> "polylines_3d", pcd_slice |-> "pcd"]

WithRoadSurface(v) ==
    [anno_key |-> BaseParams.anno_key, label_field |-> BaseParams.label_field,
     pcd_slice |-> BaseParams.pcd_slice, road_surface |-> v]

\* ctx.params.get("road_surface", 0)
GetRoadSurface(ps) ==
    IF "road_surface" \in DOMAIN ps THEN ps.road_surface ELSE ExecuteFallback

Init ==
    /\ pc = "idle"
    /\ \E n \in 0..MaxEntries :
         /\ \E l \in Layouts(n) :
              \E flat \in [1..Total([i \in 1..n |-> l[i].len], n) -> SamplePolylines] :
                 all_polylines = FieldValues(n, [i \in 1..n |-> l[i].len],
                                             [i \in 1..n |-> l[i].none], flat)
         /\ metadatas \in [1..n -> Metadatas]
         /\ group_ids \in [1..n -> GroupIds]
    /\ via = NotSet /\ params = NotSet /\ road_surface = NotSet
    /\ idx = 0 /\ polylines_3d = EmptyDict /\ label_field_values = EmptyDict /\ events = <<>>
    /\ polyline_2d = NotSet /\ metadata = NotSet /\ road_z_value = NotSet /\ outcome = NotSet

\* __call__ (lines 189-204): road_surface is the caller's, or the default
Call ==
    /\ pc = "idle"
    /\ \E supplied \in BOOLEAN, v \in SuppliedRoadSurfaces :
         /\ via' = [path |-> "__call__", supplied |-> supplied]
         /\ params' = WithRoadSurface(IF supplied THEN v ELSE RoadSurfaceDefault)
    /\ pc' = "execute"
    /\ UNCHANGED <<road_surface, all_polylines, metadatas, group_ids, idx, polylines_3d,
                   label_field_values, events>>
    /\ UNCHANGED callVars

\* the form of resolve_input (lines 250-258): required, pre-filled with the default
SubmitForm ==
    /\ pc = "idle"
    /\ \E supplied \in BOOLEAN, v \in SuppliedRoadSurfaces :
         /\ via' = [path |-> "form", supplied |-> supplied]
         /\ params' = WithRoadSurface(IF supplied THEN v ELSE RoadSurfaceDefault)
    /\ pc' = "execute"
    /\ UNCHANGED <<road_surface, all_polylines, metadatas, group_ids, idx, polylines_3d,
                   label_field_values, events>>
    /\ UNCHANGED callVars

\* the operator executed with params that hold no road_surface
ExecuteBare ==
    /\ pc = "idle"
    /\ via' = [path |-> "execute", supplied |-> FALSE]
    /\ params' = BaseParams
    /\ pc' = "execute"
    /\ UNCHANGED <<road_surface, all_polylines, metadatas, group_ids, idx, polylines_3d,
                   label_field_values, events>>
    /\ UNCHANGED callVars

\* execute (lines 262-275)
execute ==
    /\ pc = "execute"
    /\ road_surface' = GetRoadSurface(params)
    /\ \E r \in {load_annotation(all_polylines, metadatas, group_ids,
                               GetRoadSurface(params), label_field_values, events)} :
         /\ all_polylines' = r.all_polylines
         /\ polylines_3d' = r.polylines_3d
         /\ idx' = r.idx
         /\ label_field_values' = r.label_field
         /\ events' = IF r.raised THEN r.events ELSE Append(r.events, "reload_dataset")
         /\ pc' = IF r.raised THEN "raised" ELSE "done"
    /\ UNCHANGED <<via, params, metadatas, group_ids>>
    /\ UNCHANGED callVars

Next == Call \/ SubmitForm \/ ExecuteBare \/ execute

Spec == Init /\ [][Next]_vars

\* the operator's runs and the direct calls together
SpecAll == (Init \/ InitCall) /\ [][Next \/ NextCall]_vars

----------------------------------------------------------------------------
(* What the claims speak of *)

\* the 3D point the specification's formula gives for the 2D point p
Expected3D(p, md, z) ==
    << Mul(p[1], md.max_bound[1] - md.min_bound[1]) + md.min_bound[1],
       Mul(One - p[2], md.max_bound[2] - md.min_bound[2]) + md.min_bound[2],
       z >>

ExpectedPolyline(p2d, md, z) ==
    [points3d |-> [i \in 1..Len(p2d.points) |-> [j \in 1..Len(p2d.points[i]) |->
                      Expected3D(p2d.points[i][j], md, z)]],
     label |-> p2d.label]

ExpectedCollection(fv, md, z) ==
    IF fv = None THEN [polylines |-> <<>>]
    ELSE [polylines |-> [j \in 1..Len(fv.polylines) |-> ExpectedPolyline(fv.polylines[j], md, z)]]

PointsOf(points) == UNION { { points[i][j] : j \in 1..Len(points[i]) } : i \in 1..Len(points) }

AllPoints2D(points) == \A p \in PointsOf(points) : Len(p) = 2

SameShape(points3d, points) ==
    /\ Len(points3d) = Len(points)
    /\ \A i \in 1..Len(points) : Len(points3d[i]) = Len(points[i])

CallEnded == pc \in {"returned", "raised"}

RunEnded == pc \in {"done", "raised"}

Entries == 1..Len(group_ids)

DistinctGroupIds == \A i, k \in Entries : i # k => group_ids[i] # group_ids[k]

IsLastWithItsGroupId(i) == \A k \in Entries : k > i => group_ids[k] # group_ids[i]

\* some polyline of the batch is one polyline_2d_to_3d raises on
SomePolylineFails ==
    \E i \in Entries :
        /\ all_polylines[i] # None
        /\ \E j \in 1..Len(all_polylines[i].polylines) :
               polyline_2d_to_3d(all_polylines[i].polylines[j], metadatas[i], road_surface).raised

----------------------------------------------------------------------------
(* C1: every 2D point (u, v) of a polyline that polyline_2d_to_3d returns for
   comes out, at the same chain and point index, as
   (u*(max0-min0)+min0, (1-v)*(max1-min1)+min1, road_z_value); with bounds
   (0,0)-(10,20), (0,0) goes to (0, 20, z) and (1,1) to (10, 0, z). *)
C1_PointMapping ==
    (pc = "returned" /\ AllPoints2D(polyline_2d.points)) =>
        /\ SameShape(outcome.ret.points3d, polyline_2d.points)
        /\ \A i \in 1..Len(polyline_2d.points) : \A j \in 1..Len(polyline_2d.points[i]) :
              LET p == polyline_2d.points[i][j]
                  q == outcome.ret.points3d[i][j]
              IN  /\ q = Expected3D(p, metadata, road_z_value)
                  /\ q[3] = road_z_value
                  /\ (metadata.min_bound = <<0, 0>> /\ metadata.max_bound = <<100, 200>>) =>
                        /\ p = <<0, 0>> => q = <<0, 200, road_z_value>>
                        /\ p = <<10, 10>> => q = <<100, 0, road_z_value>>

C1_Witness ==
    /\ pc = "returned"
    /\ polyline_2d.points = << << <<0, 0>>, <<10, 10>> >>, << <<5, 20>>, <<0, 0>> >> >>
    /\ metadata.max_bound = <<100, 200>>
    /\ road_z_value = RoadSurfaceDefault
    /\ outcome.ret.points3d[1] = << <<0, 200, -16>>, <<100, 0, -16>> >>

(* C2: a batch with pairwise distinct group ids that load_annotation gets
   through leaves polylines_3d with exactly the batch's group ids as keys, and a
   sample whose polyline_2d is None has its key, with an empty collection. *)
C2_BatchKeys ==
    (pc = "done" /\ DistinctGroupIds) =>
        /\ DOMAIN polylines_3d = { group_ids[i] : i \in Entries }
        /\ Cardinality(DOMAIN polylines_3d) = Len(group_ids)
        /\ \A i \in Entries :
              all_polylines[i] = None => polylines_3d[group_ids[i]] = [polylines |-> <<>>]

C2_Witness ==
    /\ pc = "done"
    /\ Len(group_ids) = 2
    /\ DistinctGroupIds
    /\ all_polylines[1] = None
    /\ all_polylines[2] # None
    /\ polylines_3d[group_ids[1]] = [polylines |-> <<>>]

(* C3: polyline_2d_to_3d does not end in an error on empty input: without
   chains it returns a polyline without chains, and with an empty chain it
   returns a polyline whose chain at that index is empty. *)
C3_EmptyInputReturns ==
    /\ (CallEnded /\ polyline_2d.points = <<>>) =>
          (pc = "returned" /\ Len(outcome.ret.points3d) = 0)
    /\ (CallEnded /\ \E i \in 1..Len(polyline_2d.points) : Len(polyline_2d.points[i]) = 0) =>
          /\ pc = "returned"
          /\ Len(outcome.ret.points3d) = Len(polyline_2d.points)
          /\ \A i \in 1..Len(polyline_2d.points) :
                Len(polyline_2d.points[i]) = 0 => Len(outcome.ret.points3d[i]) = 0

(* C4: for a polyline of 2-coordinate points whose chains need not be equally
   long, polyline_2d_to_3d returns as many chains, each as long as the input
   chain at its index. Stated on the polylines that have a chain and no empty
   chain; the empty ones are C3's. *)
C4_ShapePreserved ==
    ( /\ CallEnded
      /\ AllPoints2D(polyline_2d.points)
      /\ Len(polyline_2d.points) > 0
      /\ \A i \in 1..Len(polyline_2d.points) : Len(polyline_2d.points[i]) > 0 ) =>
        (pc = "returned" /\ SameShape(outcome.ret.points3d, polyline_2d.points))

(* C5: on a polyline whose points have another number of coordinates than 2,
   polyline_2d_to_3d ends in an error; it returns no polyline whose points have
   a number of coordinates other than 3. *)
C5_WrongDimensionRejected ==
    /\ ( /\ CallEnded
         /\ PointsOf(polyline_2d.points) # {}
         /\ \A p \in PointsOf(polyline_2d.points) : Len(p) # 2 ) => pc = "raised"
    /\ pc = "returned" => \A q \in PointsOf(outcome.ret.points3d) : Len(q) = 3

(* C6, as claimed: after load_annotation every sample with a polyline_2d value
   of k polylines has, under its group id, k 3D polylines, the j-th being the
   j-th 2D polyline projected with that sample's metadata, under its label. *)
C6_EverySampleStored ==
    pc = "done" =>
        \A i \in Entries :
            all_polylines[i] # None =>
                polylines_3d[group_ids[i]] =
                    ExpectedCollection(all_polylines[i], metadatas[i], road_surface)

(* C6, amended: the same, for every sample that no later sample of the batch
   shares its group id with (every sample, when the group ids are distinct). *)
C6_LastSampleStored ==
    pc = "done" =>
        \A i \in Entries :
            (all_polylines[i] # None /\ IsLastWithItsGroupId(i)) =>
                /\ Len(polylines_3d[group_ids[i]].polylines) = Len(all_polylines[i].polylines)
                /\ \A j \in 1..Len(all_polylines[i].polylines) :
                      /\ polylines_3d[group_ids[i]].polylines[j] =
                            ExpectedPolyline(all_polylines[i].polylines[j], metadatas[i],
                                             road_surface)
                      /\ polylines_3d[group_ids[i]].polylines[j].label =
                            all_polylines[i].polylines[j].label

C6_Witness ==
    /\ pc = "done"
    /\ Len(group_ids) = 2
    /\ DistinctGroupIds
    /\ metadatas[1] # metadatas[2]
    /\ all_polylines[1] = [polylines |-> <<CurbLine>>]
    /\ all_polylines[2] = [polylines |-> <<LaneLine, CurbLine>>]
    /\ Len(polylines_3d[group_ids[2]].polylines) = 2
    /\ polylines_3d[group_ids[2]].polylines[2].label = "curb"

(* C7: polyline_2d_to_3d and the loop of load_annotation change none of their
   inputs: the polylines' points and labels, the metadata, and the sequences of
   polyline values, metadatas and group ids are after every step what they were
   before it. *)
C7_InputsUnchanged ==
    [][ /\ polyline_2d' = polyline_2d
        /\ metadata' = metadata
        /\ all_polylines' = all_polylines
        /\ metadatas' = metadatas
        /\ group_ids' = group_ids ]_vars

C7_Witness ==
    /\ pc = "done"
    /\ \E i \in Entries :
          /\ all_polylines[i] = [polylines |-> <<LaneLine, CurbLine>>]
          /\ Len(polylines_3d[group_ids[i]].polylines) = 2

(* C8: when the operator runs without a road_surface of the caller's, the plane
   height load_annotation is run with is -1.6, whichever way the operator was
   entered. *)
C8_DefaultRoadSurface ==
    (RunEnded /\ ~via.supplied) => road_surface = RoadSurfaceDefault

(* C9: when samples of one batch share a group id, the batch does not fail for
   it, and polylines_3d holds under that id exactly the collection of the last
   of them in input order: nothing of the earlier ones is merged in, and there
   is no other key. *)
C9_LastSampleWins ==
    (RunEnded /\ ~DistinctGroupIds) =>
        /\ pc = "raised" => SomePolylineFails
        /\ pc = "done" =>
              /\ DOMAIN polylines_3d = { group_ids[i] : i \in Entries }
              /\ \A i \in Entries :
                    IsLastWithItsGroupId(i) =>
                        polylines_3d[group_ids[i]] =
                            ExpectedCollection(all_polylines[i], metadatas[i], road_surface)

C9_Witness ==
    /\ pc = "done"
    /\ group_ids = <<"g1", "g1">>
    /\ all_polylines[1] = [polylines |-> <<LaneLine, CurbLine>>]
    /\ all_polylines[2] = [polylines |-> <<CurbLine>>]
    /\ Len(polylines_3d["g1"].polylines) = 1

(* C10: the write of the batch is all or nothing: when a projection fails in any
   sample, nothing has been written to the label field and reload_dataset is
   not triggered; when none fails, set_values happens once, after every sample
   was projected, and reload_dataset is triggered after it. *)
C10_AllOrNothing ==
    /\ pc \in {"idle", "execute"} => (events = <<>> /\ label_field_values = EmptyDict)
    /\ pc = "raised" => (events = <<>> /\ label_field_values = EmptyDict)
    /\ pc = "done" =>
          /\ events = <<"set_values", "reload_dataset">>
          /\ idx = Len(group_ids)
          /\ label_field_values = polylines_3d
    /\ RunEnded => (pc = "raised" <=> SomePolylineFails)

C10_Witness ==
    /\ pc = "raised"
    /\ idx = 1
    /\ DOMAIN polylines_3d # {}
    /\ label_field_values = EmptyDict
    /\ events = <<>>

====
